---- MODULE Spec2Model ----
(***************************************************************************)
(* SmartHealthyScan: the capture-and-bounded-latency-analysis pipeline.    *)
(*                                                                         *)
(*   App (src/unnamed/part_000)          isProcessing, result, error,      *)
(*                                       handleCapture, handleReset        *)
(*   CameraView (src/unnamed/part_001)   startCamera, the lifecycle        *)
(*                                       effect, capturePhoto              *)
(*   geminiService (src/unnamed/part_001, lines 302-398)                   *)
(*                                       analyzeIngredientsAndGetRecipes   *)
(*                                                                         *)
(* The event loop is single threaded: every action below is one task or    *)
(* one promise continuation, run to completion together with the React     *)
(* commit (re-render, ref attach/detach, effect cleanup and effect) that   *)
(* its state updates cause.  The shutter flash (isFlashing and its 150 ms  *)
(* timer, lines 87-88 of CameraView) is presentation only and is left out. *)
(***************************************************************************)
EXTENDS Integers, Sequences, FiniteSets, TLC

(***************************************************************************)
(* Bounds of the model.                                                    *)
(***************************************************************************)
\* orchestration sessions (handleCapture invocations) in one behaviour
MaxSessions == 2
\* media streams the device hands out in one behaviour
MaxStreams == 3
\* getUserMedia calls awaiting their answer at one time
MaxPending == 2

(***************************************************************************)
(* JavaScript values.  A JSON text is a sequence of tokens: punctuation,   *)
(* the literal null, whitespace, string literals, and anything else        *)
(* (which no JSON grammar rule accepts).                                   *)
(***************************************************************************)
P(x) == [t |-> "punct", v |-> x]
S(x) == [t |-> "string", v |-> x]
WS == P(" ")

Null == [type |-> "null"]
Str(x) == [type |-> "string", v |-> x]
Arr(items) == [type |-> "array", items |-> items]
Obj(fields) == [type |-> "object", fields |-> fields]

\* JavaScript truthiness of a parsed JSON value (used by {!result ? ... : ...})
Truthy(v) ==
  CASE v.type = "null" -> FALSE
    [] v.type = "string" -> v.v # ""
    [] OTHER -> TRUE

\* String.prototype.trim: leading and trailing whitespace removed
RECURSIVE TrimLeft(_)
TrimLeft(text) ==
  IF text # <<>> /\ Head(text) = WS THEN TrimLeft(Tail(text)) ELSE text

RECURSIVE TrimRight(_)
TrimRight(text) ==
  IF text # <<>> /\ text[Len(text)] = WS
  THEN TrimRight(SubSeq(text, 1, Len(text) - 1))
  ELSE text

trim(text) == TrimRight(TrimLeft(text))

\* JSON.parse: a recursive-descent parser over the tokens.  Each Parse
\* operator returns [ok, value, next]: whether a value was read at position
\* i, the value, and the position after it.
Fail == [ok |-> FALSE, value |-> Null, next |-> 0]

\* whitespace between tokens is insignificant to JSON.parse
SkipWhitespace(text) == SelectSeq(text, LAMBDA tok : tok # WS)

RECURSIVE ParseValue(_, _)
RECURSIVE ParseItems(_, _, _)
RECURSIVE ParseMembers(_, _, _)

\* the elements of an array after "[" (acc: the items read so far)
ParseItems(t, i, acc) ==
  LET item == ParseValue(t, i) IN
  IF ~item.ok THEN Fail
  ELSE IF item.next > Len(t) THEN Fail
  ELSE IF t[item.next] = P("]")
       THEN [ok |-> TRUE, value |-> Arr(Append(acc, item.value)), next |-> item.next + 1]
  ELSE IF t[item.next] = P(",")
       THEN ParseItems(t, item.next + 1, Append(acc, item.value))
  ELSE Fail

\* the members of an object after "{" (acc: the fields read so far; a
\* repeated key keeps its last value)
ParseMembers(t, i, acc) ==
  IF i + 1 > Len(t) \/ t[i].t # "string" \/ t[i + 1] # P(":") THEN Fail
  ELSE
    LET member == ParseValue(t, i + 2)
        fields == [k \in DOMAIN acc \cup {t[i].v} |->
                     IF k = t[i].v THEN member.value ELSE acc[k]]
    IN
    IF ~member.ok THEN Fail
    ELSE IF member.next > Len(t) THEN Fail
    ELSE IF t[member.next] = P("}")
         THEN [ok |-> TRUE, value |-> Obj(fields), next |-> member.next + 1]
    ELSE IF t[member.next] = P(",")
         THEN ParseMembers(t, member.next + 1, fields)
    ELSE Fail

ParseValue(t, i) ==
  IF i > Len(t) THEN Fail
  ELSE IF t[i] = P("null") THEN [ok |-> TRUE, value |-> Null, next |-> i + 1]
  ELSE IF t[i].t = "string" THEN [ok |-> TRUE, value |-> Str(t[i].v), next |-> i + 1]
  ELSE IF t[i] = P("[")
       THEN IF i + 1 <= Len(t) /\ t[i + 1] = P("]")
            THEN [ok |-> TRUE, value |-> Arr(<<>>), next |-> i + 2]
            ELSE ParseItems(t, i + 1, <<>>)
  ELSE IF t[i] = P("{")
       THEN IF i + 1 <= Len(t) /\ t[i + 1] = P("}")
            THEN [ok |-> TRUE, value |-> Obj([k \in {} |-> Null]), next |-> i + 2]
            ELSE ParseMembers(t, i + 1, [k \in {} |-> Null])
  ELSE Fail

\* JSON.parse(text): [ok, value]; ok = FALSE is a thrown SyntaxError
JSONParse(text) ==
  LET t == SkipWhitespace(text)
      r == ParseValue(t, 1)
  IN IF r.ok /\ r.next = Len(t) + 1
     THEN [ok |-> TRUE, value |-> r.value]
     ELSE [ok |-> FALSE, value |-> Null]

(***************************************************************************)
(* Error messages.  A message is a sequence of characters, so that         *)
(* String.prototype.includes is a substring search; each message the code  *)
(* writes as a literal is kept as one unit (none of them contains "xhr     *)
(* error" or "500").  The empty sequence is the empty string.              *)
(***************************************************************************)
\* App line 18: "分析时间过长，请检查网络后重试。"
TimeoutMessage == <<"analysis took too long, check the network and retry">>
\* App line 30: "分析失败，请稍后重试。"
DefaultMessage == <<"analysis failed, retry later">>
\* geminiService line 388: "API 返回内容为空"
EmptyMessage == <<"the API returned no content">>
\* geminiService line 394: "网络请求失败，请检查网络或重试。"
NetworkMessage == <<"network request failed, check the network or retry">>
\* geminiService line 396: "识别食材失败，请确保图片清晰并重试。"
MalformedMessage == <<"could not recognise the ingredients, retake a clear picture">>
\* CameraView line 59: "无法访问摄像头。请检查权限设置。"
CameraMessage == <<"cannot access the camera, check the permission settings">>

\* the needles of geminiService line 393
XhrError == <<"x", "h", "r", " ", "e", "r", "r", "o", "r">>
FiveHundred == <<"5", "0", "0">>

\* String.prototype.includes
includes(message, needle) ==
  \E i \in 1..(Len(message) - Len(needle) + 1) :
    SubSeq(message, i, i + Len(needle) - 1) = needle

(***************************************************************************)
(* The remote analysis service and the JavaScript engine, as the inputs    *)
(* analyzeIngredientsAndGetRecipes meets.                                  *)
(***************************************************************************)
\* two-collection documents the service returns (records are opaque to the
\* core: an ingredient or a recipe is one string here)
DocumentOf(ingredients, recipes) ==
  Obj([k \in {"ingredients", "recipes"} |->
         IF k = "ingredients" THEN Arr(ingredients) ELSE Arr(recipes)])

Documents ==
  { DocumentOf(<<Str("egg"), Str("rice")>>, <<Str("omelette")>>),
    DocumentOf(<<>>, <<>>) }

\* the service's serialisation of an array and of a document
RECURSIVE SerializeItems(_)
SerializeItems(items) ==
  IF items = <<>> THEN <<>>
  ELSE IF Len(items) = 1 THEN <<S(Head(items).v)>>
  ELSE <<S(Head(items).v), P(",")>> \o SerializeItems(Tail(items))

SerializeArray(a) == <<P("[")>> \o SerializeItems(a.items) \o <<P("]")>>

Serialize(doc) ==
  <<P("{"), S("ingredients"), P(":")>> \o SerializeArray(doc.fields["ingredients"])
    \o <<P(","), S("recipes"), P(":")>> \o SerializeArray(doc.fields["recipes"])
    \o <<P("}")>>

\* responses that violate the schema: no text, blank text, a payload that
\* is not JSON, the document null, and documents lacking a collection
ViolationTexts ==
  { <<>>,
    <<WS>>,
    <<P("<html>")>>,
    <<P("{"), S("ingredients"), P(":"), P("["), S("egg"), P("]")>>,
    <<P("null")>>,
    <<P("{"), P("}")>>,
    <<WS, P("{"), S("ingredients"), P(":"), P("["), S("egg"), P("]"), P("}")>> }

\* messages of transport-level failures of generateContent
TransportMessages ==
  { XhrError,
    <<"H", "T", "T", "P", " ">> \o FiveHundred,
    <<"F", "a", "i", "l", "e", "d", " ", "t", "o", " ", "f", "e", "t", "c", "h">> }

\* messages of what the GoogleGenAI constructor throws (no API key), the
\* second one without a message
ConstructorMessages == { <<"An API Key must be set">>, <<>> }

\* messages of the engine's SyntaxError: the engine quotes the position or
\* a piece of the offending text, which may hold the characters 500
SyntaxErrorMessages ==
  { <<"Unexpected end of JSON input">>,
    <<"U", "n", "e", "x", "p", "e", "c", "t", "e", "d", " ">> \o FiveHundred }

\* what one analysis call meets: the constructor throws, the request fails
\* in transport, or a response arrives (syntax: the engine's message should
\* JSON.parse throw)
CollaboratorOutcomes ==
  [kind : {"constructor"}, message : ConstructorMessages]
    \cup [kind : {"transport"}, message : TransportMessages]
    \cup [kind : {"document"}, doc : Documents, pad : BOOLEAN]
    \cup [kind : {"violation"}, text : ViolationTexts, syntax : SyntaxErrorMessages]

\* response.text of a response
ResponseText(c) ==
  IF c.kind = "document"
  THEN IF c.pad THEN <<WS>> \o Serialize(c.doc) \o <<WS, WS>> ELSE Serialize(c.doc)
  ELSE c.text

(***************************************************************************)
(* geminiService: analyzeIngredientsAndGetRecipes.  The result is how the  *)
(* returned promise settles: [kind |-> "resolve", value] or                *)
(* [kind |-> "reject", message].                                           *)
(***************************************************************************)
Resolve(value) == [kind |-> "resolve", value |-> value, message |-> <<>>]
Reject(message) == [kind |-> "reject", value |-> Null, message |-> message]

\* the catch block, lines 391-397
ClassifyError(message) ==
  IF includes(message, XhrError) \/ includes(message, FiveHundred)
  THEN Reject(NetworkMessage)
  ELSE Reject(MalformedMessage)

analyzeIngredientsAndGetRecipes(c) ==
  IF c.kind = "constructor" THEN Reject(c.message)      \* line 304, outside the try
  ELSE IF c.kind = "transport" THEN ClassifyError(c.message)
  ELSE
    LET text == ResponseText(c)
        parsed == JSONParse(trim(text))
    IN IF text = <<>> THEN ClassifyError(EmptyMessage)  \* line 388
       ELSE IF parsed.ok THEN Resolve(parsed.value)     \* line 390
       ELSE ClassifyError(c.syntax)

(***************************************************************************)
(* Data URLs.  canvas.toDataURL gives "data:image/jpeg;base64,<payload>",  *)
(* or "data:," for a raster it cannot encode.  A URL is a sequence of      *)
(* pieces and commas; the empty sequence stands for null (no still image). *)
(***************************************************************************)
NoImage == <<>>

DataUrls ==
  { <<"data:image/jpeg;base64", ",", "/9j/4AAQSkZJRg">>,
    <<"data:", ",">> }

\* String.prototype.split(','): the pieces between the commas
RECURSIVE SplitFrom(_, _, _)
SplitFrom(url, i, piece) ==
  IF i > Len(url) THEN <<piece>>
  ELSE IF url[i] = "," THEN <<piece>> \o SplitFrom(url, i + 1, <<>>)
  ELSE SplitFrom(url, i + 1, Append(piece, url[i]))

split(url) == SplitFrom(url, 1, <<>>)

\* dataUrl.split(',')[1], the empty sequence when it is undefined or ""
Base64Of(dataUrl) ==
  LET pieces == split(dataUrl)
  IN IF Len(pieces) >= 2 THEN pieces[2] ELSE <<>>

(***************************************************************************)
(* State.                                                                  *)
(***************************************************************************)
VARIABLES
  hosted,        \* whether the host page keeps <App> in the tree
  isProcessing,  \* App: useState(false)
  result,        \* App: useState<AnalysisResponse | null>(null)
  error,         \* App: useState<string | null>(null); <<>> is null
  sessions,      \* one record per handleCapture invocation, oldest first
  unhandled,     \* whether a promise rejected with no reaction attached
  view,          \* CameraView: its useState cells error, streamActive, capturedImage
  video,         \* the <video> element videoRef.current points to
  device,        \* navigator.mediaDevices: pending getUserMedia calls and streams
  shutter        \* what the capturePhoto call of the last step did ("none": the last step was no call)

vars == <<hosted, isProcessing, result, error, sessions, unhandled, view, video, device, shutter>>

NoError == <<>>

\* CameraView's state at mount (lines 11-14)
InitialView == [error |-> NoError, streamActive |-> FALSE, capturedImage |-> NoImage]

\* a <video> element as React creates it: no source, nothing loaded
\*   srcObject  the stream assigned to it (0: none)
\*   loaded     loadedmetadata was dispatched or readyState was >= 2 at line 52
\*   play       the promise of the play() call of line 46
\*   dims       videoWidth and videoHeight are both non-zero
FreshVideo == [srcObject |-> 0, loaded |-> FALSE, play |-> "none", dims |-> FALSE]

\* the device: no call pending, no stream handed out
\*   preferred  startCamera calls awaiting getUserMedia(constraints), line 31
\*   fallback   startCamera calls awaiting getUserMedia({video: true}), line 34
\*   acquired   streams handed out so far (streams are numbered 1..acquired)
\*   live       the streams with a track that was not stopped
IdleDevice == [preferred |-> 0, fallback |-> 0, acquired |-> 0, live |-> {}]

\* App renders <CameraView> while result is falsy (line 46)
CameraViewMounted(res) == hosted /\ ~Truthy(res)

\* App renders <ResultDisplay data={result}> otherwise; its render reads
\* data.recipes.length and data.ingredients.map (Header.tsx, lines 87-128)
\* and throws on a value without the two collections, and React then
\* removes the tree: there is a reset button only for a value that renders
Renders(res) ==
  /\ res.type = "object"
  /\ {"ingredients", "recipes"} \subseteq DOMAIN res.fields
  /\ res.fields["ingredients"].type = "array"
  /\ res.fields["recipes"].type = "array"

\* CameraView renders <video ref={videoRef}> (and the canvas) when it shows
\* neither the error panel nor the still image (lines 122, 141)
VideoRendered(v, res) ==
  CameraViewMounted(res) /\ v.error = NoError /\ v.capturedImage = NoImage

\* a new session: handleCapture up to its await (lines 14-25)
\*   analysis  the promise of analyzeIngredientsAndGetRecipes
\*   timer     the setTimeout of line 18
\*   won       which of the two settled Promise.race
\*   cause     what the analysis call met (a CollaboratorOutcomes kind)
\*   nResult, nError, nExit  calls of setResult, of setError in the catch
\*             block, and of setIsProcessing(false) made for this session
\*   loserAt   how many sessions there were when the input that lost the
\*             race settled (0: it has not settled)
NewSession ==
  [analysis |-> "pending", timer |-> "armed", won |-> "none", cause |-> "none",
   nResult |-> 0, nError |-> 0, nExit |-> 0, loserAt |-> 0]

\* mutant of RaceInputs: the race is run without the timeout promise
RaceWithoutDeadline == {"analysis"}

\* the promises Promise.race attaches its reactions to (lines 22-25): only
\* these can settle the race, and only their rejections are handled
RaceInputs == {"analysis", "timer"}

\* mutant of RaceOpen: every settlement is delivered
RaceOpenAlways(session) == TRUE

\* mutant of RaceOpen: a failure is replaced by a success that comes later
RaceOpenUntilResult(session) == session.nResult = 0

\* Promise.race settles with the first of its inputs to settle; a later
\* settlement finds the race settled and does nothing
RaceOpen(session) == session.won = "none"

\* mutant of StartCameraView: the still image is left in place
StartCameraKeepsImage(v) == v

\* startCamera up to its first await (lines 17-31)
StartCameraView(v) == [v EXCEPT !.capturedImage = NoImage]
StartCameraDevice(d) == [d EXCEPT !.preferred = @ + 1]

\* track.stop() on every track of a stream
StopTracks(d, stream) == [d EXCEPT !.live = @ \ {stream}]

\* the cleanup of the lifecycle effect (lines 67-72); ref: whether
\* videoRef.current is an element when the cleanup runs
Cleanup(ref, vid, d) ==
  IF ref /\ vid.srcObject # 0 THEN StopTracks(d, vid.srcObject) ELSE d

Init ==
  /\ hosted = TRUE
  /\ isProcessing = FALSE
  /\ result = Null
  /\ error = NoError
  /\ sessions = <<>>
  /\ unhandled = FALSE
  \* CameraView is mounted and its effect has called startCamera
  /\ view = StartCameraView(InitialView)
  /\ video = FreshVideo
  /\ device = StartCameraDevice(IdleDevice)
  /\ shutter = "none"

(***************************************************************************)
(* CameraView: startCamera after its awaits, the media events, the retry   *)
(* button and capturePhoto.                                                *)
(***************************************************************************)
\* getUserMedia resolves with a new stream (line 31 or 34), then lines
\* 37-56.  ready: whether readyState >= 2 at line 52.
getUserMediaResolves(attempt, ready) ==
  LET stream == device.acquired + 1
      mounted == CameraViewMounted(result)
      attach == VideoRendered(view, result)           \* if (videoRef.current)
      view1 == IF attach /\ ready THEN [view EXCEPT !.streamActive = TRUE] ELSE view
      view2 == IF mounted THEN [view1 EXCEPT !.error = NoError] ELSE view1
  IN
  /\ device[attempt] > 0
  /\ device.acquired < MaxStreams
  /\ device' = [device EXCEPT ![attempt] = @ - 1,
                              !.acquired = stream,
                              !.live = @ \cup {stream}]
  /\ view' = view2
  /\ video' = IF attach
              THEN [srcObject |-> stream, loaded |-> ready, play |-> "none", dims |-> FALSE]
              ELSE FreshVideo
  /\ shutter' = "none"
  /\ UNCHANGED <<hosted, isProcessing, result, error, sessions, unhandled>>

\* mutant of preferredRejected: the first rejection is final
PreferredRejectedFails ==
  /\ device.preferred > 0
  /\ device' = [device EXCEPT !.preferred = @ - 1]
  /\ view' = IF CameraViewMounted(result)
             THEN [view EXCEPT !.error = CameraMessage]
             ELSE view
  /\ video' = IF CameraViewMounted(result) THEN FreshVideo ELSE video
  /\ shutter' = "none"
  /\ UNCHANGED <<hosted, isProcessing, result, error, sessions, unhandled>>

\* getUserMedia(constraints) rejects: the catch of lines 32-35 asks again
\* with the minimal constraints
preferredRejected ==
  /\ device.preferred > 0
  /\ device' = [device EXCEPT !.preferred = @ - 1, !.fallback = @ + 1]
  /\ shutter' = "none"
  /\ UNCHANGED <<hosted, isProcessing, result, error, sessions, unhandled, view, video>>

\* getUserMedia({video: true}) rejects too: the catch of lines 57-60
fallbackRejected ==
  /\ device.fallback > 0
  /\ device' = [device EXCEPT !.fallback = @ - 1]
  /\ view' = IF CameraViewMounted(result)
             THEN [view EXCEPT !.error = CameraMessage]
             ELSE view
  /\ video' = IF CameraViewMounted(result) THEN FreshVideo ELSE video
  /\ shutter' = "none"
  /\ UNCHANGED <<hosted, isProcessing, result, error, sessions, unhandled>>

\* the element dispatches loadedmetadata: the handler of lines 45-50 calls
\* play()
loadedmetadata ==
  /\ VideoRendered(view, result)
  /\ video.srcObject \in device.live
  /\ ~video.loaded
  /\ video' = [video EXCEPT !.loaded = TRUE, !.play = "pending"]
  /\ shutter' = "none"
  /\ UNCHANGED <<hosted, isProcessing, result, error, sessions, unhandled, view, device>>

\* playback starts: the element dispatches playing (handleVideoPlay, lines
\* 40-44) and resolves the play() promise
playing ==
  /\ VideoRendered(view, result)
  /\ video.play = "pending"
  /\ video' = [video EXCEPT !.play = "resolved"]
  /\ view' = [view EXCEPT !.streamActive = TRUE]
  /\ shutter' = "none"
  /\ UNCHANGED <<hosted, isProcessing, result, error, sessions, unhandled, device>>

\* the play() promise rejects: the catch of lines 46-49
playRejected ==
  /\ VideoRendered(view, result)
  /\ video.play = "pending"
  /\ video' = [video EXCEPT !.play = "rejected"]
  /\ view' = [view EXCEPT !.streamActive = TRUE]
  /\ shutter' = "none"
  /\ UNCHANGED <<hosted, isProcessing, result, error, sessions, unhandled, device>>

\* the device delivers real frames: videoWidth and videoHeight are non-zero
frameDimensions ==
  /\ VideoRendered(view, result)
  /\ video.srcObject \in device.live
  /\ video.loaded
  /\ ~video.dims
  /\ video' = [video EXCEPT !.dims = TRUE]
  /\ shutter' = "none"
  /\ UNCHANGED <<hosted, isProcessing, result, error, sessions, unhandled, view, device>>

\* the retry button of the error panel (line 132)
retry ==
  /\ CameraViewMounted(result)
  /\ view.error # NoError
  /\ view' = StartCameraView([view EXCEPT !.error = NoError])
  /\ device' = StartCameraDevice(device)
  /\ video' = FreshVideo
  /\ shutter' = "none"
  /\ UNCHANGED <<hosted, isProcessing, result, error, sessions, unhandled>>

\* mutant of CaptureProceeds: streamActive is not asked for
CaptureProceedsUnchecked ==
  /\ ~isProcessing
  /\ VideoRendered(view, result)
  /\ video.dims

\* the first guards of capturePhoto (lines 76-85): whether the call goes on
\* to draw the frame
CaptureProceeds ==
  /\ ~isProcessing                                    \* line 76
  /\ VideoRendered(view, result)                      \* videoRef.current && canvasRef.current
  /\ view.streamActive                                \* line 78
  /\ video.dims                                       \* line 85

\* whether capturePhoto stores the still image: the 2d context exists
\* (line 94) and neither drawImage nor toDataURL throws (lines 95-97)
CaptureStores(ctx, draws) == ctx /\ draws

\* whether capturePhoto hands the payload to onCapture (lines 102-105)
CaptureHandsOver(dataUrl) == Base64Of(dataUrl) # <<>>

\* mutant of CaptureStops: the tracks are left running
CaptureStopsNothing(vid) == 0

\* the stream capturePhoto stops (lines 108-112): 0 when there is none
CaptureStops(vid) == vid.srcObject

\* capturePhoto (lines 75-118), with handleCapture up to its await (App,
\* lines 14-25) and the commit that follows.
\*   ctx      canvas.getContext('2d') is not null
\*   draws    drawImage and toDataURL do not throw
\*   dataUrl  what toDataURL returns
capturePhoto(ctx, draws, dataUrl) ==
  /\ CameraViewMounted(result)
  /\ Len(sessions) < MaxSessions
  /\ IF ~CaptureProceeds
     THEN /\ shutter' = "ignored"
          /\ UNCHANGED <<hosted, isProcessing, result, error, sessions, unhandled, view, video, device>>
     ELSE IF ~CaptureStores(ctx, draws)
     THEN /\ shutter' = "failed"
          /\ UNCHANGED <<hosted, isProcessing, result, error, sessions, unhandled, view, video, device>>
     ELSE
       LET hands == CaptureHandsOver(dataUrl)
           stops == CaptureStops(video)
       IN
       /\ shutter' = IF hands THEN "captured" ELSE "stored"
       /\ view' = [view EXCEPT !.capturedImage = dataUrl,
                               !.streamActive = IF stops # 0 THEN FALSE ELSE @]
       /\ device' = IF stops # 0 THEN StopTracks(device, stops) ELSE device
       \* the still image replaces the <video> element; the effect's cleanup
       \* (isProcessing changed) finds videoRef.current null
       /\ video' = FreshVideo
       /\ isProcessing' = (hands \/ isProcessing)
       /\ error' = IF hands THEN NoError ELSE error
       /\ sessions' = IF hands THEN Append(sessions, NewSession) ELSE sessions
       /\ UNCHANGED <<hosted, result, unhandled>>

(***************************************************************************)
(* App: handleCapture after its await, and handleReset.                    *)
(***************************************************************************)
\* the commit after App's state changed: CameraView is mounted, unmounted
\* or re-rendered, and its lifecycle effect (lines 63-73) runs its cleanup
\* and then, unless isProcessing, startCamera
AppCommit(newProcessing, newResult) ==
  LET was == CameraViewMounted(result)
      now == CameraViewMounted(newResult)
      mount == ~was /\ now
      unmount == was /\ ~now
      rerun == was /\ now /\ newProcessing # isProcessing
      \* the <video> element outlives the commit (on unmount React has
      \* detached the ref before the cleanup runs)
      kept == was /\ now /\ VideoRendered(view, result)
      view1 == IF mount \/ unmount THEN InitialView ELSE view
      device1 == IF rerun \/ unmount THEN Cleanup(kept, video, device) ELSE device
      starts == (rerun \/ mount) /\ ~newProcessing
      view2 == IF starts THEN StartCameraView(view1) ELSE view1
      device2 == IF starts THEN StartCameraDevice(device1) ELSE device1
  IN
  /\ view' = view2
  /\ device' = device2
  /\ video' = IF kept /\ VideoRendered(view2, newResult) THEN video ELSE FreshVideo

\* mutant of AfterRace: the data is not stored (no setResult)
AfterRaceWithoutResult(o) ==
  [result |-> result,
   error |-> IF o.kind = "resolve" THEN error
             ELSE IF o.message # <<>> THEN o.message ELSE DefaultMessage]

\* lines 26-33: what the settled race leaves in result and error
AfterRace(o) ==
  [result |-> IF o.kind = "resolve" THEN o.value ELSE result,
   error |-> IF o.kind = "resolve" THEN error
             ELSE IF o.message # <<>> THEN o.message ELSE DefaultMessage]

\* one input of session i's race settles with o
Settle(i, input, o, cause) ==
  LET session == sessions[i]
      open == RaceOpen(session) /\ input \in RaceInputs
      after == AfterRace(o)
      settled == [session EXCEPT
                    !.analysis = IF input = "analysis" THEN "settled" ELSE @,
                    !.timer = IF input = "timer" THEN "fired" ELSE @,
                    !.cause = IF input = "analysis" THEN cause ELSE @]
  IN
  /\ unhandled' = (unhandled \/ (o.kind = "reject" /\ input \notin RaceInputs))
  /\ shutter' = "none"
  /\ IF open
     THEN /\ sessions' = [sessions EXCEPT ![i] =
                 [settled EXCEPT
                    !.won = IF @ = "none" THEN input ELSE @,
                    !.nResult = IF o.kind = "resolve" THEN @ + 1 ELSE @,
                    !.nError = IF o.kind = "reject" THEN @ + 1 ELSE @,
                    !.nExit = @ + 1]]
          /\ isProcessing' = FALSE
          /\ result' = after.result
          /\ error' = after.error
          /\ AppCommit(FALSE, after.result)
     ELSE /\ sessions' = [sessions EXCEPT ![i] = [settled EXCEPT !.loserAt = Len(sessions)]]
          /\ UNCHANGED <<isProcessing, result, error, view, video, device>>
  /\ UNCHANGED hosted

\* the analysis call of session i settles, having met c
analysisSettles(i, c) ==
  /\ i \in 1..Len(sessions)
  /\ sessions[i].analysis = "pending"
  /\ Settle(i, "analysis", analyzeIngredientsAndGetRecipes(c), c.kind)

\* mutant of TimerRejects: the timer resolves the promise instead
TimerResolves == Resolve(Null)

\* what the deadline timer does when it fires (line 18)
TimerRejects == Reject(TimeoutMessage)

\* the 35000 ms timer of session i fires; timers fire in the order they
\* were set
deadline(i) ==
  /\ i \in 1..Len(sessions)
  /\ sessions[i].timer = "armed"
  /\ \A j \in 1..(i - 1) : sessions[j].timer = "fired"
  /\ Settle(i, "timer", TimerRejects, "none")

\* handleReset (lines 36-39), the onReset of ResultDisplay
handleReset ==
  /\ hosted
  /\ Truthy(result)
  /\ Renders(result)
  /\ result' = Null
  /\ error' = NoError
  /\ AppCommit(isProcessing, Null)
  /\ shutter' = "none"
  /\ UNCHANGED <<hosted, isProcessing, sessions, unhandled>>

(***************************************************************************)
(* The controller's operations at the hands of any caller.  In App         *)
(* startCamera is called by the lifecycle effect and by the retry button   *)
(* only, and CameraView is unmounted only when a result arrives; the two   *)
(* actions below are the same operations at any other moment.              *)
(***************************************************************************)
\* startCamera is called (lines 16-31) whatever CameraView shows: there is
\* no guard before setCapturedImage(null) and getUserMedia
initialize ==
  /\ CameraViewMounted(result)
  /\ device.preferred + device.fallback < MaxPending
  /\ view' = StartCameraView(view)
  /\ device' = StartCameraDevice(device)
  /\ video' = IF VideoRendered(view, result) THEN video ELSE FreshVideo
  /\ shutter' = "none"
  /\ UNCHANGED <<hosted, isProcessing, result, error, sessions, unhandled>>

\* the host removes the tree: CameraView is unmounted and the cleanup of
\* its lifecycle effect runs (lines 67-72), after React has detached
\* videoRef; pending getUserMedia calls and timers are left as they are
unmount ==
  /\ hosted
  /\ hosted' = FALSE
  /\ view' = InitialView
  /\ video' = FreshVideo
  /\ device' = IF CameraViewMounted(result) THEN Cleanup(FALSE, video, device) ELSE device
  /\ shutter' = "none"
  /\ UNCHANGED <<isProcessing, result, error, sessions, unhandled>>

Next ==
  \/ \E ready \in BOOLEAN : getUserMediaResolves("preferred", ready)
  \/ \E ready \in BOOLEAN : getUserMediaResolves("fallback", ready)
  \/ preferredRejected
  \/ fallbackRejected
  \/ loadedmetadata
  \/ playing
  \/ playRejected
  \/ frameDimensions
  \/ retry
  \/ \E ctx \in BOOLEAN, draws \in BOOLEAN, dataUrl \in DataUrls : capturePhoto(ctx, draws, dataUrl)
  \/ \E i \in 1..MaxSessions, c \in CollaboratorOutcomes : analysisSettles(i, c)
  \/ \E i \in 1..MaxSessions : deadline(i)
  \/ handleReset

Spec == Init /\ [][Next]_vars

\* the camera is there and the user grants it: a pending getUserMedia call
\* that is not rejected resolves, an attached stream delivers its metadata,
\* and the play() promise settles
CameraFairSpec ==
  /\ Spec
  /\ WF_vars(\E ready \in BOOLEAN : getUserMediaResolves("preferred", ready))
  /\ WF_vars(\E ready \in BOOLEAN : getUserMediaResolves("fallback", ready))
  /\ WF_vars(loadedmetadata)
  /\ WF_vars(playing \/ playRejected)

\* App's steps and the controller's operations called at any moment
ControllerNext ==
  \/ Next
  \/ initialize
  \/ unmount

ControllerSpec == Init /\ [][ControllerNext]_vars

\* the event loop runs a timer that is due: the deadline of a session fires
FairSpec == Spec /\ \A i \in 1..MaxSessions : WF_vars(deadline(i))

(***************************************************************************)
(* The capture phase of the specification, read off CameraView's state.    *)
(***************************************************************************)
Phase ==
  IF ~CameraViewMounted(result) THEN "Uninitialized"
  ELSE IF view.error # NoError THEN "Failed"
  ELSE IF view.capturedImage # NoImage THEN "Captured"
  ELSE IF view.streamActive THEN "Streaming"
  ELSE "Requesting"

\* a step that is a call of capturePhoto
CaptureAttempt ==
  \E ctx \in BOOLEAN, draws \in BOOLEAN, dataUrl \in DataUrls : capturePhoto(ctx, draws, dataUrl)

\* the session the last handleCapture call started
Last == sessions[Len(sessions)]

(***************************************************************************)
(* Properties.                                                             *)
(***************************************************************************)

\* C1: every session delivers exactly one outcome.  Whatever the order in
\* which the analysis call and the deadline settle, a session makes at most
\* one call of setResult or of setError (never both, never two) and leaves
\* Pending (setIsProcessing(false)) at most once; it has made exactly one of
\* each once its race is settled and none before; and isProcessing is true
\* exactly while the latest session's race is open.
ExactlyOneOutcome ==
  /\ \A i \in 1..Len(sessions) :
       LET s == sessions[i] IN
       /\ s.nResult + s.nError <= 1
       /\ s.nExit <= 1
       /\ (s.analysis = "settled" \/ s.timer = "fired") <=> (s.won # "none")
       /\ (s.won # "none") <=> (s.nResult + s.nError = 1 /\ s.nExit = 1)
       /\ (i < Len(sessions)) => s.won # "none"
  /\ isProcessing <=> (sessions # <<>> /\ Last.won = "none")

\* C1 witness: a session both of whose branches have settled
BothBranchesSettled ==
  \E i \in 1..Len(sessions) :
    /\ sessions[i].analysis = "settled"
    /\ sessions[i].timer = "fired"
    /\ sessions[i].nResult + sessions[i].nError = 1

\* C2: every session terminates.  Under FairSpec (a due timer fires), a
\* pending session (isProcessing) is always followed by isProcessing =
\* FALSE, also when the analysis call never settles.
SessionTerminates == isProcessing ~> ~isProcessing

\* C2 witness: a session that the deadline ended while its analysis call
\* was still unsettled
EndedByDeadlineAlone ==
  /\ sessions # <<>>
  /\ Last.won = "timer"
  /\ Last.analysis = "pending"
  /\ ~isProcessing

\* C3: when the deadline fires before the analysis call settles, the
\* session's one outcome is the timeout failure: it called setError once and
\* setResult never, and until the next capture error is the timeout message,
\* result is unset and isProcessing is false, also after the analysis call
\* settles late.
TimeoutWins ==
  \A i \in 1..Len(sessions) :
    sessions[i].won = "timer" =>
      /\ sessions[i].nError = 1 /\ sessions[i].nResult = 0 /\ sessions[i].nExit = 1
      /\ (i = Len(sessions)) =>
           (error = TimeoutMessage /\ result = Null /\ ~isProcessing)

\* C3 witness: the latest session timed out and its analysis call has then
\* resolved with a valid document
LateSuccessAfterTimeout ==
  /\ sessions # <<>>
  /\ Last.won = "timer"
  /\ Last.analysis = "settled"
  /\ Last.cause = "document"

\* C4: the loser of the race has no effect.  A step in which an input of an
\* already settled race settles leaves result, error and isProcessing as
\* they are and leaves no rejection unhandled.
LoserHasNoEffect ==
  [][\A i \in 1..Len(sessions) :
       (sessions[i].won # "none" /\ sessions'[i] # sessions[i]) =>
         /\ result' = result
         /\ error' = error
         /\ isProcessing' = isProcessing
         /\ ~unhandled']_vars

\* C4 witness: the loser of the first session settled while the second
\* session was pending (and that session is pending still)
LoserSettledDuringNewerSession ==
  /\ Len(sessions) = 2
  /\ sessions[1].loserAt = 2
  /\ sessions[2].won = "none"
  /\ isProcessing

\* C5: a valid two-collection document that arrives before the deadline is
\* delivered as it is: a step in which the analysis call of a pending
\* session receives the serialised document d (padded with whitespace or
\* not) ends with result = d, error = null and isProcessing = FALSE.
SuccessPassesThrough ==
  [][\A i \in 1..Len(sessions), d \in Documents, pad \in BOOLEAN :
       (/\ sessions[i].won = "none"
        /\ analysisSettles(i, [kind |-> "document", doc |-> d, pad |-> pad]))
       => (result' = d /\ error' = NoError /\ ~isProcessing')]_vars

\* C5 witness: a session won by the analysis call with a non-empty document,
\* which is the result
DocumentDelivered ==
  /\ sessions # <<>>
  /\ Last.won = "analysis"
  /\ Last.cause = "document"
  /\ result \in Documents
  /\ result.fields["ingredients"].items # <<>>

\* C6 (as claimed): a transport-level failure before the deadline gives the
\* network failure message, whatever the failure's own message.
TransportFailureIsNetworkError ==
  (sessions # <<>> /\ Last.won = "analysis" /\ Last.cause = "transport")
    => error = NetworkMessage

\* C7 (as claimed): a schema violation before the deadline gives the
\* malformed-response failure and is never delivered as a result, so a
\* delivered result has both collections.
SchemaViolationIsMalformed ==
  /\ (sessions # <<>> /\ Last.won = "analysis" /\ Last.cause = "violation")
       => (error = MalformedMessage /\ result = Null)
  /\ Truthy(result) =>
       (result.type = "object" /\ {"ingredients", "recipes"} \subseteq DOMAIN result.fields)

\* C8: a capturePhoto call made while the phase is not Streaming, or while
\* the frame has a zero width or height, is ignored: no image, no session,
\* no track stopped, and the phase, the still image and the errors are as
\* before.
CaptureUnreadyIsNoOp ==
  [][(CaptureAttempt /\ ~(Phase = "Streaming" /\ video.dims))
       => (/\ shutter' = "ignored"
           /\ UNCHANGED <<isProcessing, result, error, sessions, view, video, device>>)]_vars

\* C8 witness: a capturePhoto call was just ignored outside Streaming
CaptureIgnoredOutsideStreaming ==
  shutter = "ignored" /\ Phase # "Streaming"

\* C9 (as claimed): a capturePhoto call made in Streaming with a non-zero
\* frame stores one encoded image, starts exactly one session with it, stops
\* the stream's tracks and moves the phase to Captured.
CaptureReadyCaptures ==
  [][(CaptureAttempt /\ Phase = "Streaming" /\ video.dims)
       => (/\ shutter' = "captured"
           /\ view'.capturedImage \in DataUrls
           /\ Len(sessions') = Len(sessions) + 1
           /\ video.srcObject \notin device'.live
           /\ Phase' = "Captured")]_vars

AtMostOneLiveStream == Cardinality(device.live) <= 1

\* C12 (as claimed): startCamera called while the phase is Requesting or
\* Streaming is a no-op: no further getUserMedia call, no stream handle
\* replaced, the phase (CameraView's state) unchanged.
InitializeWhileBusyIsNoOp ==
  [][(initialize /\ Phase \in {"Requesting", "Streaming"})
       => UNCHANGED <<view, video, device>>]_vars

\* C13 (as claimed): teardown releases the stream unconditionally: once the
\* controller is unmounted and no getUserMedia call is pending any more,
\* every stream it acquired has all its tracks stopped.
NoStreamOutlivesController ==
  (~CameraViewMounted(result) /\ device.preferred + device.fallback = 0)
    => device.live = {}

\* C14: after a reset (and after a failure, and after the retry button)
\* startCamera runs, and with the camera granted the controller reaches
\* Streaming again with the still image cleared.  Under CameraFairSpec every
\* state in which CameraView is mounted and a getUserMedia call is pending
\* is followed by phase Streaming with no still image, unless the device
\* rejects both attempts (phase Failed).
ReinitializeReachesStreaming ==
  (/\ CameraViewMounted(result)
   /\ device.preferred + device.fallback > 0
   /\ device.acquired < MaxStreams)
    ~> ((Phase = "Streaming" /\ view.capturedImage = NoImage) \/ Phase = "Failed")

\* C14 witness: Streaming again after a delivered document was reset
StreamingAfterReset ==
  /\ sessions # <<>>
  /\ Last.won = "analysis"
  /\ Last.cause = "document"
  /\ result = Null
  /\ Phase = "Streaming"
  /\ view.capturedImage = NoImage

\* C15 (as claimed): the phase goes from Requesting to Streaming only in a
\* step that leaves a live stream attached whose first frame is confirmed
\* playable (readyState was >= 2 when the stream was attached, or playback
\* started); a rejected play() call does not move it.
StreamingOnlyAfterFirstFrame ==
  [][(Phase = "Requesting" /\ Phase' = "Streaming")
       => (/\ video'.srcObject \in device'.live
           /\ \/ video'.play = "resolved"
              \/ (video'.loaded /\ video'.play = "none"))]_vars

\* C16: one startCamera call makes at most two getUserMedia attempts, the
\* minimal one only when the preferred one was rejected; the phase becomes
\* Failed, with the camera message, exactly when the second attempt is
\* rejected; and a second attempt that succeeds does what a first one does
\* and sets no error.  Step by step: an attempt with the minimal
\* constraints appears only in a step that ends a preferred attempt without
\* a stream; a step enters Failed if and only if it ends a minimal attempt
\* without a stream, and then no attempt is left and none was added; and a
\* minimal attempt that resolves attaches the new live stream, clears the
\* error and sets streamActive only when readyState >= 2, as lines 37-56 do
\* for either attempt.
TwoAttemptsThenFailed ==
  [][/\ (device'.fallback > device.fallback) =>
          /\ device'.fallback = device.fallback + 1
          /\ device'.preferred = device.preferred - 1
          /\ device'.acquired = device.acquired
          /\ view' = view
     /\ (Phase # "Failed" /\ Phase' = "Failed") <=>
          /\ CameraViewMounted(result)
          /\ device'.fallback = device.fallback - 1
          /\ device'.acquired = device.acquired
     /\ (Phase # "Failed" /\ Phase' = "Failed") =>
          /\ view'.error = CameraMessage
          /\ device'.preferred = device.preferred
          /\ device'.preferred + device'.fallback = 0
     /\ \A ready \in BOOLEAN :
          (getUserMediaResolves("fallback", ready) /\ VideoRendered(view, result)) =>
            /\ view'.error = NoError
            /\ view'.streamActive = (view.streamActive \/ ready)
            /\ video'.srcObject = device'.acquired
            /\ device'.acquired \in device'.live
            /\ device'.preferred + device'.fallback = 0]_vars

\* C16 witness: both attempts of a call were rejected and the error panel
\* shows the camera message
FailedAfterTwoAttempts ==
  /\ Phase = "Failed"
  /\ view.error = CameraMessage
  /\ device.preferred + device.fallback = 0

\* C17: at most one session is Pending at any time.  In every state at most
\* one session has an open race; a capturePhoto call made while
\* isProcessing is ignored (no image, no session, no track stopped); and a
\* step that starts a session starts exactly one, from a state in which
\* isProcessing is false, every earlier session has delivered its outcome
\* and the phase is Streaming.
OneSessionPending ==
  [][/\ Cardinality({i \in 1..Len(sessions) : sessions[i].won = "none"}) <= 1
     /\ Cardinality({i \in 1..Len(sessions') : sessions'[i].won = "none"}) <= 1
     /\ (isProcessing /\ CaptureAttempt) =>
          /\ shutter' = "ignored"
          /\ UNCHANGED <<isProcessing, sessions, view, video, device>>
     /\ (Len(sessions') # Len(sessions)) =>
          /\ Len(sessions') = Len(sessions) + 1
          /\ ~isProcessing
          /\ \A i \in 1..Len(sessions) :
               sessions[i].won # "none" /\ sessions[i].nResult + sessions[i].nError = 1
          /\ Phase = "Streaming"
          /\ isProcessing']_vars

\* C17 witness: the second session was just started by a capture, after the
\* first one delivered its outcome
SecondSessionAfterFirst ==
  /\ Len(sessions) = 2
  /\ sessions[1].nResult + sessions[1].nError = 1
  /\ sessions[2].won = "none"
  /\ shutter = "captured"

\* C18 (as claimed): a capture that stores a still image and stops the
\* stream also starts a session: whenever CameraView shows a still image,
\* a session is Pending (isProcessing), so that its outcome re-initializes
\* the camera or replaces the view.
StoredImageHasSession ==
  (CameraViewMounted(result) /\ view.capturedImage # NoImage) => isProcessing

====
